---- MODULE Spec2Model ----
(***************************************************************************)
(* A model of the youtube-dl command-line wrapper:                         *)
(*   src/bin/batch-download.js  the batch driver (one child per line)      *)
(*   src/index.js               entry point A (single request)             *)
(*   src/bin/index.js           entry point B (two-pass: video, audio)     *)
(*                                                                         *)
(* Strings are sequences of one-character strings; a character that the    *)
(* tools cannot write literally is named by its code point ("U+D55C").     *)
(* A path is a sequence of components, each component a string.            *)
(***************************************************************************)
EXTENDS Integers, Sequences, FiniteSets, TLC

VARIABLES
    \* ---- batch driver (src/bin/batch-download.js) ----
    fileExists,     \* fs.existsSync(inputFile)
    lines,          \* the lines readline yields for the input file
    parentArg,      \* args[1], <<>> when absent
    bpc,            \* position of main: "start", "loop", "await", "done", "exit1"
    idx,            \* number of lines the for-await loop has consumed
    lineCount,
    successCount,
    failCount,
    promise,        \* the promise of the processLine call in progress
    children,       \* one record per spawn() call, in spawn order
    log,            \* the events seen by the driver, in order
    \* ---- downloadVideo of entry points A and B ----
    entry,          \* "A" (src/index.js), "B" (src/bin/index.js), "none"
    url,
    title,          \* videoInfo.title
    opts,           \* the options object main has parsed
    selected,       \* A: selectedFormat, "auto" or a format identifier
    now,            \* the clock reading replacePlaceholders takes
    dpc,            \* position of the call
    folderArg,      \* A: the folderName argument main passes to downloadVideo
    dirs,           \* the directories known to exist
    mkdirs,         \* the directories created by mkdirSync, in order
    requests,       \* the requests handed to the downloader, in order
    result,         \* <<>> while running, <<"ok">>, or <<"DownloadFailed", message>>
    \* ---- format catalogue (src/index.js) ----
    given,          \* videoInfo.formats as the downloader returned it
    formats,        \* the same array, as the calls leave it
    organized,      \* <<>>, or <<r>> when organizeFormats has returned r
    best,           \* <<>>, or <<r>> when selectBestFormat has returned r
    \* ---- the string functions, called on their own ----
    callee,         \* the function called: "replacePlaceholders", "sanitizeFolderName"
    text,           \* its argument
    today,          \* the reading of new Date() during the call
    ret,            \* <<>>, or <<r>> when the call has returned r
    \* ---- main of entry points A and B ----
    prog,           \* "A" (src/index.js), "B" (src/bin/index.js), "none"
    args,           \* process.argv.slice(2)
    step,           \* position of main
    parsed,         \* the options object
    calls,          \* the calls made to the downloader, in order
    printed,        \* what main has written to the console, in order
    ended,          \* "" while running, "returned", "exit1", or "threw"
    \* ---- the choice of a format in entry point A ----
    autoFlag,       \* options.auto
    choices,        \* <<>>, or <<c>> when the prompt was shown with the choices c
    answer          \* <<>>, or <<v>> when selectedFormat has been set to v

batchVars == <<fileExists, lines, parentArg, bpc, idx, lineCount, successCount,
               failCount, promise, children, log>>

dlVars == <<entry, url, title, opts, selected, now, dpc, folderArg, dirs, mkdirs,
            requests, result>>

fmtVars == <<given, formats, organized, best>>

strVars == <<callee, text, today, ret>>

cliVars == <<prog, args, step, parsed, calls, printed, ended>>

selVars == <<autoFlag, choices, answer>>

vars == <<batchVars, dlVars, fmtVars, strVars, cliVars, selVars>>

notBatch == <<dlVars, fmtVars, strVars, cliVars, selVars>>
notDl == <<batchVars, fmtVars, strVars, cliVars, selVars>>
notFmt == <<batchVars, dlVars, strVars, cliVars, selVars>>
notStr == <<batchVars, dlVars, fmtVars, cliVars, selVars>>
notCli == <<batchVars, dlVars, fmtVars, strVars, selVars>>
notSel == <<batchVars, dlVars, strVars, cliVars>>

-----------------------------------------------------------------------------
(* Strings *)

Whitespace == {" ", "\t"}

RECURSIVE TrimStart(_)
TrimStart(s) ==
    IF s = <<>> THEN <<>>
    ELSE IF Head(s) \in Whitespace THEN TrimStart(Tail(s)) ELSE s

RECURSIVE TrimEnd(_)
TrimEnd(s) ==
    IF s = <<>> THEN <<>>
    ELSE IF s[Len(s)] \in Whitespace THEN TrimEnd(SubSeq(s, 1, Len(s) - 1)) ELSE s

\* String.prototype.trim
Trim(s) == TrimEnd(TrimStart(s))

\* s.replace(/c/g, r) for a one-character pattern c and replacement r
RECURSIVE ReplaceChar(_, _, _)
ReplaceChar(s, c, r) ==
    IF s = <<>> THEN <<>>
    ELSE (IF Head(s) = c THEN r ELSE <<Head(s)>>) \o ReplaceChar(Tail(s), c, r)

\* s.replace(/pat/g, rep) for a literal pattern: the matches are found left to
\* right and do not overlap; the replacement text is not scanned again
RECURSIVE ReplaceAll(_, _, _)
ReplaceAll(s, pat, rep) ==
    IF Len(s) < Len(pat) \/ pat = <<>> THEN s
    ELSE IF SubSeq(s, 1, Len(pat)) = pat
         THEN rep \o ReplaceAll(SubSeq(s, Len(pat) + 1, Len(s)), pat, rep)
         ELSE <<Head(s)>> \o ReplaceAll(Tail(s), pat, rep)

\* s.replace(pat, rep) for a string pattern: the first occurrence only
RECURSIVE ReplaceFirst(_, _, _)
ReplaceFirst(s, pat, rep) ==
    IF Len(s) < Len(pat) \/ pat = <<>> THEN s
    ELSE IF SubSeq(s, 1, Len(pat)) = pat
         THEN rep \o SubSeq(s, Len(pat) + 1, Len(s))
         ELSE <<Head(s)>> \o ReplaceFirst(Tail(s), pat, rep)

\* s.startsWith(pre)
StartsWith(s, pre) == Len(pre) <= Len(s) /\ SubSeq(s, 1, Len(pre)) = pre

\* s.includes(pat)
Includes(s, pat) ==
    \E n \in 1..(Len(s) + 1) : n + Len(pat) - 1 <= Len(s)
                               /\ SubSeq(s, n, n + Len(pat) - 1) = pat

Digits == {"0", "1", "2", "3", "4", "5", "6", "7", "8", "9"}
Lower == {"a", "b", "c", "d", "e", "f", "g", "h", "i", "j", "k", "l", "m",
          "n", "o", "p", "q", "r", "s", "t", "u", "v", "w", "x", "y", "z"}
Upper == {"A", "B", "C", "D", "E", "F", "G", "H", "I", "J", "K", "L", "M",
          "N", "O", "P", "Q", "R", "S", "T", "U", "V", "W", "X", "Y", "Z"}

\* \w
WordChars == Lower \cup Upper \cup Digits \cup {"_"}

\* the code points of the characters written by name
CodePoint ==
    [c \in {"U+AC00", "U+D55C", "U+D7AF", "U+1100", "U+3131", "U+00E9", "U+3042"} |->
        CASE c = "U+AC00" -> 44032
          [] c = "U+D55C" -> 54620
          [] c = "U+D7AF" -> 55215
          [] c = "U+1100" -> 4352
          [] c = "U+3131" -> 12593
          [] c = "U+00E9" -> 233
          [] c = "U+3042" -> 12354]

\* [가-힯ᄀ-ᇿ㄰-㆏]
IsKorean(c) ==
    /\ c \in DOMAIN CodePoint
    /\ \/ CodePoint[c] >= 44032 /\ CodePoint[c] <= 55215
       \/ CodePoint[c] >= 4352 /\ CodePoint[c] <= 4607
       \/ CodePoint[c] >= 12592 /\ CodePoint[c] <= 12687

\* [<>:"/\\|?*]
Forbidden == {"<", ">", ":", "\"", "/", "\\", "|", "?", "*"}

\* s.replace(/[<>:"/\\|?*]/g, '_')
ReplaceForbidden(s) ==
    [i \in 1..Len(s) |-> IF s[i] \in Forbidden THEN "_" ELSE s[i]]

\* s.replace(/\s+/g, '_'): each maximal run of whitespace becomes one '_'
CollapseWhitespace(s) ==
    LET starts == SelectSeq([i \in 1..Len(s) |-> i],
                            LAMBDA i : ~(s[i] \in Whitespace /\ i > 1
                                         /\ s[i - 1] \in Whitespace))
    IN [k \in 1..Len(starts) |->
          IF s[starts[k]] \in Whitespace THEN "_" ELSE s[starts[k]]]

\* s.replace(/[^\w\-_가-힯ᄀ-ᇿ㄰-㆏]/g, '')
StripDisallowed(s) ==
    SelectSeq(s, LAMBDA c : c \in WordChars \cup {"-"} \/ IsKorean(c))

\* s.substring(0, n)
Substring0(s, n) == SubSeq(s, 1, IF Len(s) < n THEN Len(s) ELSE n)

FolderNameLimit == 100

minimalSanitizeFilename(name) == ReplaceForbidden(name)

\* a sanitizeFolderName that cuts the name before it cleans it
sanitizeFolderNameTruncatesFirst(name) ==
    StripDisallowed(CollapseWhitespace(ReplaceForbidden(
        Substring0(name, FolderNameLimit))))

sanitizeFolderName(name) ==
    Substring0(StripDisallowed(CollapseWhitespace(ReplaceForbidden(name))),
               FolderNameLimit)

DigitChar(d) == CASE d = 0 -> "0" [] d = 1 -> "1" [] d = 2 -> "2" [] d = 3 -> "3"
                  [] d = 4 -> "4" [] d = 5 -> "5" [] d = 6 -> "6" [] d = 7 -> "7"
                  [] d = 8 -> "8" [] d = 9 -> "9"

\* n.toString().padStart(2, '0') for 0 <= n <= 99
Pad2(n) == <<DigitChar(n \div 10), DigitChar(n % 10)>>

\* getCurrentDateTime for the clock reading t: getFullYear (four digits),
\* getMonth (0..11), getDate, getHours, getMinutes, getSeconds
getCurrentDateTime(t) ==
    LET year == Pad2(t.fullYear % 100)
        month == Pad2(t.month + 1)
        day == Pad2(t.date)
        hours == Pad2(t.hours)
        minutes == Pad2(t.minutes)
        seconds == Pad2(t.seconds)
    IN [fullTime |-> year \o month \o day \o <<"_">> \o hours \o minutes \o seconds,
        date |-> year \o month \o day,
        year |-> year, y |-> year,
        month |-> month, m |-> month,
        day |-> day, d |-> day,
        time |-> hours \o minutes \o seconds,
        hour |-> hours, h |-> hours,
        minute |-> minutes, min |-> minutes,
        second |-> seconds, sec |-> seconds]

Token(name) == <<"{">> \o name \o <<"}">>

\* a replacePlaceholders whose patterns lack the g flag
replacePlaceholdersFirstOnly(folderName, t) ==
    LET dt == getCurrentDateTime(t)
        s1 == ReplaceFirst(folderName, Token(<<"f", "u", "l", "l", "T", "i", "m", "e">>), dt.fullTime)
        s2 == ReplaceFirst(s1, Token(<<"d", "a", "t", "e">>), dt.date)
        s3 == ReplaceFirst(s2, Token(<<"y", "e", "a", "r">>), dt.year)
        s4 == ReplaceFirst(s3, Token(<<"y">>), dt.y)
        s5 == ReplaceFirst(s4, Token(<<"m", "o", "n", "t", "h">>), dt.month)
        s6 == ReplaceFirst(s5, Token(<<"m">>), dt.m)
        s7 == ReplaceFirst(s6, Token(<<"d", "a", "y">>), dt.day)
        s8 == ReplaceFirst(s7, Token(<<"d">>), dt.d)
        s9 == ReplaceFirst(s8, Token(<<"t", "i", "m", "e">>), dt.time)
        s10 == ReplaceFirst(s9, Token(<<"h", "o", "u", "r">>), dt.hour)
        s11 == ReplaceFirst(s10, Token(<<"h">>), dt.h)
        s12 == ReplaceFirst(s11, Token(<<"m", "i", "n", "u", "t", "e">>), dt.minute)
        s13 == ReplaceFirst(s12, Token(<<"m", "i", "n">>), dt.min)
        s14 == ReplaceFirst(s13, Token(<<"s", "e", "c", "o", "n", "d">>), dt.second)
    IN ReplaceFirst(s14, Token(<<"s", "e", "c">>), dt.sec)

\* replacePlaceholders at the clock reading t: fifteen global replacements, in
\* the order of the source
replacePlaceholders(folderName, t) ==
    LET dt == getCurrentDateTime(t)
        s1 == ReplaceAll(folderName, Token(<<"f", "u", "l", "l", "T", "i", "m", "e">>), dt.fullTime)
        s2 == ReplaceAll(s1, Token(<<"d", "a", "t", "e">>), dt.date)
        s3 == ReplaceAll(s2, Token(<<"y", "e", "a", "r">>), dt.year)
        s4 == ReplaceAll(s3, Token(<<"y">>), dt.y)
        s5 == ReplaceAll(s4, Token(<<"m", "o", "n", "t", "h">>), dt.month)
        s6 == ReplaceAll(s5, Token(<<"m">>), dt.m)
        s7 == ReplaceAll(s6, Token(<<"d", "a", "y">>), dt.day)
        s8 == ReplaceAll(s7, Token(<<"d">>), dt.d)
        s9 == ReplaceAll(s8, Token(<<"t", "i", "m", "e">>), dt.time)
        s10 == ReplaceAll(s9, Token(<<"h", "o", "u", "r">>), dt.hour)
        s11 == ReplaceAll(s10, Token(<<"h">>), dt.h)
        s12 == ReplaceAll(s11, Token(<<"m", "i", "n", "u", "t", "e">>), dt.minute)
        s13 == ReplaceAll(s12, Token(<<"m", "i", "n">>), dt.min)
        s14 == ReplaceAll(s13, Token(<<"s", "e", "c", "o", "n", "d">>), dt.second)
    IN ReplaceAll(s14, Token(<<"s", "e", "c">>), dt.sec)

-----------------------------------------------------------------------------
(* Paths *)

PosixSeps == {"/"}
Win32Seps == {"/", "\\"}

\* the components of s between separators, empty ones and "." dropped
RECURSIVE Components(_, _, _)
Components(s, seps, cur) ==
    IF s = <<>> THEN (IF cur = <<>> \/ cur = <<".">> THEN <<>> ELSE <<cur>>)
    ELSE IF Head(s) \in seps
         THEN (IF cur = <<>> \/ cur = <<".">> THEN <<>> ELSE <<cur>>)
              \o Components(Tail(s), seps, <<>>)
         ELSE Components(Tail(s), seps, cur \o <<Head(s)>>)

\* path.normalize without "..": a path is its components, led by the root
\* when it is absolute
Normalize(s, seps) ==
    (IF s # <<>> /\ Head(s) \in seps THEN << <<"/">> >> ELSE <<>>)
    \o Components(s, seps, <<>>)

RECURSIVE JoinStrings(_)
JoinStrings(parts) ==
    IF parts = <<>> THEN <<>>
    ELSE IF Head(parts) = <<>> THEN JoinStrings(Tail(parts))
    ELSE IF JoinStrings(Tail(parts)) = <<>> THEN Head(parts)
    ELSE Head(parts) \o <<"/">> \o JoinStrings(Tail(parts))

\* path.join(...parts): the non-empty parts joined by a separator, normalized
PathJoin(parts, seps) == Normalize(JoinStrings(parts), seps)

\* path.dirname of a normalized path with at least one component
Dirname(p) == SubSeq(p, 1, Len(p) - 1)

(* The state of a program that is not running *)

NoOptions ==
    [folderName |-> <<>>, parentFolder |-> <<>>, parentFolderDash |-> <<>>,
     folderNameDash |-> <<>>, outputDir |-> <<>>, filename |-> <<>>,
     audioOnly |-> FALSE, quality |-> <<>>, description |-> FALSE, json |-> FALSE,
     auto |-> FALSE]

DlIdle ==
    /\ entry = "none"
    /\ url = ""
    /\ title = <<>>
    /\ opts = NoOptions
    /\ selected = ""
    /\ now = [fullYear |-> 2000, month |-> 0, date |-> 1,
              hours |-> 0, minutes |-> 0, seconds |-> 0]
    /\ dpc = "idle"
    /\ folderArg = <<>>
    /\ dirs = {}
    /\ mkdirs = <<>>
    /\ requests = <<>>
    /\ result = <<>>

FmtIdle ==
    /\ given = <<>>
    /\ formats = <<>>
    /\ organized = <<>>
    /\ best = <<>>

StrIdle ==
    /\ callee = "none"
    /\ text = <<>>
    /\ today = [fullYear |-> 2000, month |-> 0, date |-> 1,
                hours |-> 0, minutes |-> 0, seconds |-> 0]
    /\ ret = <<>>

SelIdle ==
    /\ autoFlag = FALSE
    /\ choices = <<>>
    /\ answer = <<>>

CliIdle ==
    /\ prog = "none"
    /\ args = <<>>
    /\ step = "idle"
    /\ parsed = NoOptions
    /\ calls = <<>>
    /\ printed = <<>>
    /\ ended = ""

BatchIdle ==
    /\ fileExists = FALSE
    /\ lines = <<>>
    /\ parentArg = <<>>
    /\ bpc = "idle"
    /\ idx = 0
    /\ lineCount = 0
    /\ successCount = 0
    /\ failCount = 0
    /\ promise = "none"
    /\ children = <<>>
    /\ log = <<>>

-----------------------------------------------------------------------------
(* The batch driver *)

MaxLines == 4

\* the lines a file may hold: empty, blank, a URL, a URL with blanks around it
FileLines == { <<>>, <<" ">>, <<"u">>, <<" ", "v", "\t">> }

ParentArgs == { <<>>, <<"A", "/", "B">> }

\* the exit codes a child may close with
ExitCodes == {0, 1}

\* the code 'close' carries for a child that could not be spawned (-errno)
SpawnFailCode == -2

DefaultParentFolder == <<"ISEGYE_IDOL", "/", "INE">>

\* main, options.parentFolder
batchOptions(arg) ==
    [parentFolder |-> IF arg # <<>> THEN arg ELSE DefaultParentFolder]

\* processLine, the command line it builds
command(line, options) ==
    [url |-> Trim(line),
     parentFolder |-> IF options.parentFolder # <<>>
                      THEN ReplaceChar(options.parentFolder, "/", <<"\\">>)
                      ELSE <<>>]

Resolve(p) == IF p = "pending" THEN "resolved" ELSE p
Reject(p) == IF p = "pending" THEN "rejected" ELSE p

\* a processLine that does not wait for its child
processLineNoWait(line) ==
    IF Trim(line) = <<>>
    THEN [spawn |-> FALSE, promise |-> "resolved"]
    ELSE [spawn |-> TRUE, promise |-> "resolved"]

\* processLine: a blank line resolves at once, any other line spawns a child
\* and leaves the promise pending
processLine(line) ==
    IF Trim(line) = <<>>
    THEN [spawn |-> FALSE, promise |-> "resolved"]
    ELSE [spawn |-> TRUE, promise |-> "pending"]

\* a 'close' handler that forgets to settle the promise on a non-zero exit code
onCloseNoResolve(p, code) == IF code = 0 THEN Resolve(p) ELSE p

\* a 'close' handler that rejects on a non-zero exit code
onCloseRejects(p, code) == IF code = 0 THEN Resolve(p) ELSE Reject(p)

\* process.on('close'): resolves whatever the code is
onClose(p, code) == IF code = 0 THEN Resolve(p) ELSE Resolve(p)

\* process.on('error'): resolves
onError(p) == Resolve(p)

\* main, the condition of the loop body: if (line.trim())
isCounted(line) == Trim(line) # <<>>

\* main, what follows await processLine: successCount++ or, in catch, failCount++
afterAwait(p, s, f) ==
    IF p = "resolved" THEN [success |-> s + 1, fail |-> f]
    ELSE [success |-> s, fail |-> f + 1]

Alive(c) == c.state = "running"

BatchInit ==
    /\ fileExists \in BOOLEAN
    /\ lines \in UNION { [1..n -> FileLines] : n \in 0..MaxLines }
    /\ parentArg \in ParentArgs
    /\ bpc = "start"
    /\ idx = 0
    /\ lineCount = 0
    /\ successCount = 0
    /\ failCount = 0
    /\ promise = "none"
    /\ children = <<>>
    /\ log = <<>>
    /\ DlIdle
    /\ FmtIdle
    /\ StrIdle
    /\ CliIdle
    /\ SelIdle

\* main up to the loop: a missing input file ends the process with status 1
BatchStart ==
    /\ bpc = "start"
    /\ bpc' = IF fileExists THEN "loop" ELSE "exit1"
    /\ UNCHANGED <<fileExists, lines, parentArg, idx, lineCount, successCount,
                   failCount, promise, children, log>>
    /\ UNCHANGED notBatch

\* the loop takes the next line; a counted line calls processLine, which
\* spawns the child; whether the spawn succeeds is the system's choice
BatchNextLine ==
    /\ bpc = "loop"
    /\ idx < Len(lines)
    /\ LET line == lines[idx + 1]
           r == processLine(line)
       IN IF isCounted(line)
          THEN /\ lineCount' = lineCount + 1
               /\ promise' = r.promise
               /\ bpc' = "await"
               /\ IF r.spawn
                  THEN \E st \in {"running", "spawnfail"} :
                         /\ children' = Append(children,
                                [line |-> idx + 1,
                                 cmd |-> command(line, batchOptions(parentArg)),
                                 state |-> st,
                                 code |-> <<>>,
                                 errored |-> FALSE])
                         /\ log' = Append(log, <<"spawn", Len(children) + 1>>)
                  ELSE UNCHANGED <<children, log>>
               /\ UNCHANGED idx
          ELSE /\ idx' = idx + 1
               /\ UNCHANGED <<lineCount, promise, bpc, children, log>>
    /\ UNCHANGED <<fileExists, lines, parentArg, successCount, failCount>>
    /\ UNCHANGED notBatch

\* the promise a handler of child j settles: the one main is awaiting when j
\* is the child of the call in progress, else one that is settled already
Awaited(j) == bpc = "await" /\ children[j].line = idx + 1

\* a running child ends: 'close' with its exit code
ChildClose ==
    \E j \in 1..Len(children) :
      /\ children[j].state = "running"
      /\ \E code \in ExitCodes :
           /\ promise' = IF Awaited(j) THEN onClose(promise, code) ELSE promise
           /\ log' = Append(log, <<"close", j>>)
           /\ children' = [children EXCEPT ![j].state = "closed",
                                           ![j].code = <<code>>]
      /\ UNCHANGED <<fileExists, lines, parentArg, bpc, idx, lineCount,
                     successCount, failCount>>
      /\ UNCHANGED notBatch

\* a child could not be spawned: 'error' and then 'close' are emitted in one
\* turn of the event loop, so both handlers run before main resumes
ChildSpawnError ==
    \E j \in 1..Len(children) :
      /\ children[j].state = "spawnfail"
      /\ promise' = IF Awaited(j)
                    THEN onClose(onError(promise), SpawnFailCode)
                    ELSE promise
      /\ log' = log \o << <<"error", j>>, <<"close", j>> >>
      /\ children' = [children EXCEPT ![j].state = "closed",
                                      ![j].code = <<SpawnFailCode>>,
                                      ![j].errored = TRUE]
      /\ UNCHANGED <<fileExists, lines, parentArg, bpc, idx, lineCount,
                     successCount, failCount>>
      /\ UNCHANGED notBatch

\* the await returns (or throws into catch) once the promise is settled
BatchResume ==
    /\ bpc = "await"
    /\ promise \in {"resolved", "rejected"}
    /\ LET r == afterAwait(promise, successCount, failCount)
       IN /\ successCount' = r.success
          /\ failCount' = r.fail
    /\ promise' = "none"
    /\ idx' = idx + 1
    /\ bpc' = "loop"
    /\ UNCHANGED <<fileExists, lines, parentArg, lineCount, children, log>>
    /\ UNCHANGED notBatch

\* the loop ends and the tally is printed
BatchFinish ==
    /\ bpc = "loop"
    /\ idx = Len(lines)
    /\ bpc' = "done"
    /\ UNCHANGED <<fileExists, lines, parentArg, idx, lineCount, successCount,
                   failCount, promise, children, log>>
    /\ UNCHANGED notBatch

BatchNext ==
    \/ BatchStart
    \/ BatchNextLine
    \/ ChildClose
    \/ ChildSpawnError
    \/ BatchResume
    \/ BatchFinish

SpecBatch == BatchInit /\ [][BatchNext]_vars

\* every child the system has accepted ends, and the event loop runs main on
FairBatch == SpecBatch /\ WF_vars(BatchNext)

-----------------------------------------------------------------------------
(* Claims about the batch driver *)

\* the indices of the non-blank lines of ls, in file order
RECURSIVE NonBlankFrom(_, _)
NonBlankFrom(ls, i) ==
    IF i > Len(ls) THEN <<>>
    ELSE (IF Trim(ls[i]) # <<>> THEN <<i>> ELSE <<>>) \o NonBlankFrom(ls, i + 1)

NonBlank(ls) == NonBlankFrom(ls, 1)

\* the position of event e in the log, 0 when it is not there
At(e) == IF \E i \in 1..Len(log) : log[i] = e
         THEN CHOOSE i \in 1..Len(log) : log[i] = e
         ELSE 0

Times(e) == Cardinality({i \in 1..Len(log) : log[i] = e})

\* the children spawned so far are those of the first non-blank lines, one
\* each, in file order, each with the trimmed line as its URL
SpawnedInOrder ==
    /\ Len(children) <= Len(NonBlank(lines))
    /\ \A j \in 1..Len(children) :
         /\ children[j].line = NonBlank(lines)[j]
         /\ children[j].cmd.url = Trim(lines[children[j].line])
         /\ Times(<<"spawn", j>>) = 1

AllProcessed ==
    /\ bpc = "done"
    /\ idx = Len(lines)
    /\ Len(children) = Len(NonBlank(lines))
    /\ \A j \in 1..Len(children) : children[j].state = "closed"

\* C1: a failing line never stops the queue: whatever the children's outcomes
\* (exit 0, non-zero exit, spawn error), every non-blank line of an existing
\* input file gets exactly one child, in file order, blank lines get none, and
\* every line is eventually processed.
C1_QueueNeverStops ==
    /\ []SpawnedInOrder
    /\ <>(bpc = "exit1" \/ AllProcessed)

\* a finished run over a file with a blank line, a child that exited non-zero
\* and a child that could not be spawned, followed by a further child
C1_Witness ==
    /\ AllProcessed
    /\ Len(NonBlank(lines)) < Len(lines)
    /\ \E j \in 1..Len(children) : children[j].code = <<1>> /\ j < Len(children)
    /\ \E j \in 1..Len(children) : children[j].errored /\ j < Len(children)

\* C2: at most one child is alive at any time, and the child of the next line
\* is spawned only after the previous child's 'close' reached the driver.
C2_OneChildAtATime ==
    /\ Cardinality({j \in 1..Len(children) : Alive(children[j])}) <= 1
    /\ \A j \in 2..Len(children) :
         /\ At(<<"close", j - 1>>) > 0
         /\ At(<<"close", j - 1>>) < At(<<"spawn", j>>)

\* a second child is running after the first one exited non-zero
C2_Witness ==
    /\ Len(children) >= 2
    /\ children[1].code = <<1>>
    /\ Alive(children[2])

\* C3: at the end total = number of non-blank lines, success + fail = total
\* and fail = 0, whatever the exit codes and spawn errors were.
C3_Tally ==
    bpc = "done" =>
        /\ lineCount = Len(NonBlank(lines))
        /\ successCount + failCount = lineCount
        /\ failCount = 0

\* a finished run of three counted lines, one child exited non-zero and one
\* got both 'error' and 'close'
C3_Witness ==
    /\ bpc = "done"
    /\ lineCount = 3
    /\ \E j \in 1..Len(children) : children[j].code = <<1>>
    /\ \E j \in 1..Len(children) :
         children[j].errored /\ Times(<<"error", j>>) = 1 /\ Times(<<"close", j>>) = 1

-----------------------------------------------------------------------------
(* downloadVideo, entry point A (src/index.js) and entry point B
   (src/bin/index.js) *)

Urls == {"https://youtu.be/a", "https://www.youtube.com/watch?v=b"}
Titles == { <<"T", "i">>, <<"a", " ", "b", "!">>, <<"x", "/", "y">> }
FolderNames == { <<>>, <<"p", "{", "d", "}">>, <<"n", " ", "m">> }
ParentFolders == { <<>>, <<"P">>, <<"A", "/", "B">> }
OutputDirs == { <<>>, <<"o", "u", "t">>, <<"/", "d", "/", "e">> }
Filenames == { <<>>, <<"f">>, <<"s", "/", "f">> }
\* options.quality: absent (or NaN), or the number parseInt returned
Qualities == { <<>>, <<0>>, <<1080>> }
Selections == {"auto", "137"}
Clocks == { [fullYear |-> 2026, month |-> 2, date |-> 5,
             hours |-> 14, minutes |-> 7, seconds |-> 59] }
\* the messages of the errors the downloader and the file system raise
Messages == {"ERROR: unavailable", "ERROR: no such format"}
FsMessage == "EACCES: permission denied, mkdir"

\* a JavaScript value used as a condition; a number is held as <<n>>
TruthyString(v) == v # <<>>
TruthyNumber(q) == q # <<>> /\ q[1] # 0

\* the path as the string path.join returns
RECURSIVE PathString(_)
PathString(p) ==
    IF p = <<>> THEN <<".">>
    ELSE IF Len(p) = 1 THEN p[1]
    ELSE IF p[1] = <<"/">> THEN <<"/">> \o PathString(Tail(p))
    ELSE p[1] \o <<"/">> \o PathString(Tail(p))

\* the output template's last part: `${name}.%(ext)s`
WithExt(name) == name \o <<".", "%(ext)s">>

\* ---- entry point A ----

BaseA == <<"/", "volume1", "/", "media", "/", "datas">>

\* main: finalFolderName
finalFolderName(o, t, clock) ==
    LET folderName == IF TruthyString(o.folderName) THEN o.folderName ELSE t
        processedFolderName == replacePlaceholders(folderName, clock)
        safeFolderName == sanitizeFolderName(processedFolderName)
    IN IF TruthyString(o.parentFolder)
       THEN o.parentFolder \o <<"/">> \o safeFolderName
       ELSE safeFolderName

\* a format string that ignores --audio-only when a format was selected
formatStringAKeepsSelection(sel, o) ==
    IF sel = "auto"
    THEN IF o.audioOnly THEN <<"bestaudio[ext=m4a]/bestaudio">>
         ELSE IF TruthyNumber(o.quality)
         THEN <<"bestvideo[height>=", ToString(o.quality[1]),
                "]+bestaudio/bestvideo+bestaudio/best">>
         ELSE <<"bestvideo+bestaudio/best">>
    ELSE <<sel>>

\* downloadVideo: downloadOptions.format when the request is made
formatStringA(sel, o) ==
    IF o.audioOnly THEN <<"bestaudio[ext=m4a]/bestaudio">>
    ELSE IF sel = "auto"
    THEN IF TruthyNumber(o.quality)
         THEN <<"bestvideo[height>=", ToString(o.quality[1]),
                "]+bestaudio/bestvideo+bestaudio/best">>
         ELSE <<"bestvideo+bestaudio/best">>
    ELSE <<sel>>

\* downloadVideo: the other keys of downloadOptions when the request is made
flagsA(o) ==
    IF o.audioOnly
    THEN { <<"noPlaylist", "true">>, <<"mergeOutputFormat", "mp4">>,
           <<"writeInfoJson", "true">>, <<"extractAudio", "true">>,
           <<"audioFormat", "mp3">> }
    ELSE { <<"noPlaylist", "true">>, <<"mergeOutputFormat", "mp4">>,
           <<"writeThumbnail", "true">>, <<"writeDescription", "true">>,
           <<"writeInfoJson", "true">> }

\* downloadVideo: downloadOptions.output; the assignment made for
\* options.outputDir is overwritten by the filename branch that follows it
outputA(o, t, folderName) ==
    LET defaultOutputDir == <<BaseA, <<"youtubes">>, folderName>>
        first == IF TruthyString(o.outputDir)
                 THEN PathJoin(<<o.outputDir, WithExt(<<"%(title)s">>)>>, PosixSeps)
                 ELSE PathJoin(defaultOutputDir \o <<WithExt(<<"v", "i", "d", "e", "o">>)>>,
                               PosixSeps)
    IN IF TruthyString(o.filename)
       THEN PathJoin(defaultOutputDir \o <<WithExt(o.filename)>>, PosixSeps)
       ELSE PathJoin(defaultOutputDir \o <<WithExt(minimalSanitizeFilename(t))>>,
                     PosixSeps)

\* downloadVideo: outputDir, the directory it creates
outputDirA(output, t) ==
    Dirname(Normalize(
        ReplaceFirst(ReplaceFirst(PathString(output), <<"%(title)s">>, t),
                     <<"%(ext)s">>, <<"m", "p", "4">>),
        PosixSeps))

\* ---- entry point B ----

mediaFolder == <<"Z:", "\\", "media">>

\* downloadVideo: outputDir
outputDirB(o, t) ==
    LET safeTitle == minimalSanitizeFilename(t)
        parentFolder == IF TruthyString(o.parentFolderDash) THEN o.parentFolderDash
                        ELSE IF TruthyString(o.parentFolder) THEN o.parentFolder
                        ELSE <<>>
    IN IF TruthyString(o.outputDir)
       THEN Normalize(o.outputDir, Win32Seps)
       ELSE IF TruthyString(parentFolder)
       THEN PathJoin(<<mediaFolder, parentFolder, safeTitle>>, Win32Seps)
       ELSE PathJoin(<<mediaFolder, safeTitle>>, Win32Seps)

\* downloadVideo: filename
filenameB(o, t) ==
    IF TruthyString(o.filename) THEN o.filename ELSE minimalSanitizeFilename(t)

\* downloadVideo: the output template of videoOptions and of audioOptions
outputB(o, t) ==
    PathJoin(<<PathString(outputDirB(o, t)), WithExt(filenameB(o, t))>>, Win32Seps)

BoolString(b) == IF b THEN "true" ELSE "false"

videoOptions(o, t) ==
    [format |-> <<"315+140/bestvideo+bestaudio/best">>,
     output |-> outputB(o, t),
     flags |-> { <<"noPlaylist", "true">>, <<"mergeOutputFormat", "mp4">>,
                 <<"writeThumbnail", "true">>,
                 <<"writeDescription", BoolString(o.description)>>,
                 <<"writeInfoJson", BoolString(o.json)>> }]

audioOptions(o, t) ==
    [format |-> <<"bestaudio">>,
     output |-> outputB(o, t),
     flags |-> { <<"noPlaylist", "true">>, <<"extractAudio", "true">>,
                 <<"audioFormat", "mp3">>, <<"audioQuality", "0">> }]

backupAudioOptions(o, t) ==
    [audioOptions(o, t) EXCEPT !.format = <<"bestaudio/best">>]

\* ---- the calls ----

\* throw new Error(`... ${error.message}`)
DownloadFailed(message) == <<"DownloadFailed", message>>

Request(u, options, leg) ==
    [url |-> u, format |-> options.format, output |-> options.output,
     flags |-> options.flags, leg |-> leg, status |-> "pending", message |-> ""]

DlInit ==
    /\ entry \in {"A", "B"}
    /\ url \in Urls
    /\ title \in Titles
    /\ now \in Clocks
    /\ opts \in
         IF entry = "A"
         THEN { [NoOptions EXCEPT !.folderName = fn, !.parentFolder = pf,
                                  !.outputDir = od, !.filename = f,
                                  !.audioOnly = ao, !.quality = q] :
                  fn \in FolderNames, pf \in ParentFolders, od \in OutputDirs,
                  f \in Filenames, ao \in BOOLEAN, q \in Qualities }
         ELSE { [NoOptions EXCEPT !.folderNameDash = fn, !.parentFolderDash = pf,
                                  !.outputDir = od, !.filename = f,
                                  !.description = de, !.json = js] :
                  fn \in FolderNames, pf \in ParentFolders, od \in OutputDirs,
                  f \in Filenames, de \in BOOLEAN, js \in BOOLEAN }
    /\ selected \in IF entry = "A" THEN Selections ELSE {""}
    /\ dpc = IF entry = "A" THEN "main" ELSE "prepare"
    /\ folderArg = <<>>
    /\ dirs = {}
    /\ mkdirs = <<>>
    /\ requests = <<>>
    /\ result = <<>>
    /\ BatchIdle
    /\ FmtIdle
    /\ StrIdle
    /\ CliIdle
    /\ SelIdle

\* if (!fs.existsSync(d)) fs.mkdirSync(d, {recursive: true}): whether d exists
\* and whether it can be created is the file system's answer
EnsureDir(d, existed, canCreate) ==
    /\ d \in dirs => existed
    /\ IF existed
       THEN /\ dirs' = dirs \cup {SubSeq(d, 1, n) : n \in 1..Len(d)}
            /\ UNCHANGED mkdirs
       ELSE IF canCreate
       THEN /\ dirs' = dirs \cup {SubSeq(d, 1, n) : n \in 1..Len(d)}
            /\ mkdirs' = Append(mkdirs, d)
       ELSE UNCHANGED <<dirs, mkdirs>>

\* A, main after the metadata fetch: the folder name it passes on
A_Main ==
    /\ entry = "A" /\ dpc = "main"
    /\ folderArg' = finalFolderName(opts, title, now)
    /\ dpc' = "prepare"
    /\ UNCHANGED <<entry, url, title, opts, selected, now, dirs, mkdirs,
                   requests, result>>
    /\ UNCHANGED notDl

\* A, downloadVideo up to the request: builds downloadOptions and creates the
\* directory; an error of mkdirSync is caught and rethrown as a download failure
A_Prepare ==
    /\ entry = "A" /\ dpc = "prepare"
    /\ \E existed \in BOOLEAN, canCreate \in BOOLEAN :
         LET d == outputDirA(outputA(opts, title, folderArg), title)
         IN /\ EnsureDir(d, existed, canCreate)
            /\ IF existed \/ canCreate
               THEN dpc' = "request" /\ UNCHANGED result
               ELSE dpc' = "done" /\ result' = DownloadFailed(FsMessage)
    /\ UNCHANGED <<entry, url, title, opts, selected, now, folderArg, requests>>
    /\ UNCHANGED notDl

\* A, downloadVideo: youtubedl(url, downloadOptions)
A_Request ==
    /\ entry = "A" /\ dpc = "request"
    /\ requests' = Append(requests,
          Request(url, [format |-> formatStringA(selected, opts),
                        output |-> outputA(opts, title, folderArg),
                        flags |-> flagsA(opts)], "single"))
    /\ dpc' = "waiting"
    /\ UNCHANGED <<entry, url, title, opts, selected, now, folderArg, dirs,
                   mkdirs, result>>
    /\ UNCHANGED notDl

\* A, downloadVideo: the request ends; a failure is rethrown with its message
A_Settle ==
    /\ entry = "A" /\ dpc = "waiting"
    /\ \/ /\ requests' = [requests EXCEPT ![Len(requests)].status = "ok"]
          /\ result' = <<"ok">>
       \/ \E m \in Messages :
          /\ requests' = [requests EXCEPT ![Len(requests)].status = "failed",
                                          ![Len(requests)].message = m]
          /\ result' = DownloadFailed(m)
    /\ dpc' = "done"
    /\ UNCHANGED <<entry, url, title, opts, selected, now, folderArg, dirs, mkdirs>>
    /\ UNCHANGED notDl

\* a video leg whose failure does not stop the call
afterVideoGoesOn(status) == "audio"

\* B, downloadVideo: where the call goes when the video request has ended; a
\* rejection leaves the try block
afterVideo(status) == IF status = "ok" THEN "audio" ELSE "done"

\* B, downloadVideo: the inner try/catch around the first audio request
afterAudio(status) == IF status = "ok" THEN "done" ELSE "retry"

\* a retry that is itself retried when it fails
afterRetryLoops(status) == IF status = "ok" THEN "done" ELSE "retry"

\* B, downloadVideo: the retry is awaited in the catch block, with no handler
\* of its own
afterRetry(status) == IF status = "ok" THEN "done" ELSE "done"

\* B, downloadVideo up to the first request: resolves the directory and
\* creates it; an error of mkdirSync is caught and rethrown as a download failure
B_Prepare ==
    /\ entry = "B" /\ dpc = "prepare"
    /\ \E existed \in BOOLEAN, canCreate \in BOOLEAN :
         /\ EnsureDir(outputDirB(opts, title), existed, canCreate)
         /\ IF existed \/ canCreate
            THEN dpc' = "request" /\ UNCHANGED result
            ELSE dpc' = "done" /\ result' = DownloadFailed(FsMessage)
    /\ UNCHANGED <<entry, url, title, opts, selected, now, folderArg, requests>>
    /\ UNCHANGED notDl

\* B, downloadVideo: youtubedl(url, videoOptions)
B_VideoRequest ==
    /\ entry = "B" /\ dpc = "request"
    /\ requests' = Append(requests, Request(url, videoOptions(opts, title), "video"))
    /\ dpc' = "videoWait"
    /\ UNCHANGED <<entry, url, title, opts, selected, now, folderArg, dirs,
                   mkdirs, result>>
    /\ UNCHANGED notDl

\* the request in flight ends, well or with message m
Ends(status, m) ==
    requests' = [requests EXCEPT ![Len(requests)].status = status,
                                 ![Len(requests)].message = m]

B_VideoSettle ==
    /\ entry = "B" /\ dpc = "videoWait"
    /\ \E status \in {"ok", "failed"}, m \in Messages :
         /\ status = "ok" => m = CHOOSE x \in Messages : TRUE
         /\ Ends(status, IF status = "ok" THEN "" ELSE m)
         /\ dpc' = afterVideo(status)
         /\ result' = IF afterVideo(status) = "done" THEN DownloadFailed(m) ELSE result
    /\ UNCHANGED <<entry, url, title, opts, selected, now, folderArg, dirs, mkdirs>>
    /\ UNCHANGED notDl

\* B, downloadVideo: youtubedl(url, audioOptions)
B_AudioRequest ==
    /\ entry = "B" /\ dpc = "audio"
    /\ requests' = Append(requests, Request(url, audioOptions(opts, title), "audio"))
    /\ dpc' = "audioWait"
    /\ UNCHANGED <<entry, url, title, opts, selected, now, folderArg, dirs,
                   mkdirs, result>>
    /\ UNCHANGED notDl

B_AudioSettle ==
    /\ entry = "B" /\ dpc = "audioWait"
    /\ \E status \in {"ok", "failed"}, m \in Messages :
         /\ status = "ok" => m = CHOOSE x \in Messages : TRUE
         /\ Ends(status, IF status = "ok" THEN "" ELSE m)
         /\ dpc' = afterAudio(status)
         /\ result' = IF afterAudio(status) = "done" THEN <<"ok">> ELSE result
    /\ UNCHANGED <<entry, url, title, opts, selected, now, folderArg, dirs, mkdirs>>
    /\ UNCHANGED notDl

\* B, downloadVideo, catch: youtubedl(url, backupAudioOptions)
B_RetryRequest ==
    /\ entry = "B" /\ dpc = "retry"
    /\ requests' = Append(requests,
                          Request(url, backupAudioOptions(opts, title), "retry"))
    /\ dpc' = "retryWait"
    /\ UNCHANGED <<entry, url, title, opts, selected, now, folderArg, dirs,
                   mkdirs, result>>
    /\ UNCHANGED notDl

B_RetrySettle ==
    /\ entry = "B" /\ dpc = "retryWait"
    /\ \E status \in {"ok", "failed"}, m \in Messages :
         /\ status = "ok" => m = CHOOSE x \in Messages : TRUE
         /\ Ends(status, IF status = "ok" THEN "" ELSE m)
         /\ dpc' = afterRetry(status)
         /\ result' = IF status = "ok" THEN <<"ok">> ELSE DownloadFailed(m)
    /\ UNCHANGED <<entry, url, title, opts, selected, now, folderArg, dirs, mkdirs>>
    /\ UNCHANGED notDl

DlNext ==
    \/ A_Main
    \/ A_Prepare
    \/ A_Request
    \/ A_Settle
    \/ B_Prepare
    \/ B_VideoRequest
    \/ B_VideoSettle
    \/ B_AudioRequest
    \/ B_AudioSettle
    \/ B_RetryRequest
    \/ B_RetrySettle

SpecDl == DlInit /\ [][DlNext]_vars

-----------------------------------------------------------------------------
(* Claims about downloadVideo *)

Legs == [i \in 1..Len(requests) |-> requests[i].leg]
IsPrefix(a, b) == Len(a) <= Len(b) /\ a = SubSeq(b, 1, Len(a))

\* C4: in B a failed first audio request is retried exactly once, with format
\* "bestaudio/best"; a failed retry ends the call with a download failure that
\* carries the retry's message; a successful first audio request is not
\* retried; a failed video request is not retried; at most three requests.
C4_AudioRetriedOnce ==
    entry = "B" =>
        /\ IsPrefix(Legs, <<"video", "audio", "retry">>)
        /\ Len(requests) >= 2 /\ requests[2].status = "failed" =>
             \/ dpc = "retry" /\ Len(requests) = 2
             \/ /\ Len(requests) = 3
                /\ requests[3] = [requests[2] EXCEPT !.format = <<"bestaudio/best">>,
                                                     !.leg = "retry",
                                                     !.status = requests[3].status,
                                                     !.message = requests[3].message]
        /\ Len(requests) = 3 => requests[2].status = "failed"
        /\ Len(requests) = 3 /\ requests[3].status = "failed" =>
             dpc = "done" /\ result = DownloadFailed(requests[3].message)
        /\ Len(requests) >= 2 /\ requests[2].status = "ok" =>
             Len(requests) = 2 /\ dpc = "done" /\ result = <<"ok">>
        /\ Len(requests) >= 1 /\ requests[1].status = "failed" =>
             Len(requests) = 1 /\ dpc = "done"

\* the retry has failed with another message than the first audio request
C4_Witness ==
    /\ entry = "B"
    /\ Len(requests) = 3
    /\ requests[3].status = "failed"
    /\ requests[3].message # requests[2].message

\* C5: in B an audio request is issued only after the video request succeeded,
\* for the same URL and the same output template; after a failed video request
\* there is no audio request and the call ends with a download failure.
C5_AudioAfterVideo ==
    entry = "B" =>
        /\ \A i \in 1..Len(requests) :
             requests[i].leg # "video" =>
               /\ i > 1
               /\ requests[1].leg = "video"
               /\ requests[1].status = "ok"
               /\ requests[i].url = requests[1].url
               /\ requests[i].output = requests[1].output
        /\ Len(requests) >= 1 /\ requests[1].status = "failed" =>
             /\ Len(requests) = 1
             /\ dpc = "done"
             /\ result = DownloadFailed(requests[1].message)

\* the audio request is in flight, for a call with a file name and a parent folder
C5_Witness ==
    /\ entry = "B"
    /\ Len(requests) = 2
    /\ requests[2].leg = "audio"
    /\ requests[2].status = "pending"
    /\ opts.filename # <<>>
    /\ opts.parentFolderDash # <<>>

Seps == IF entry = "B" THEN Win32Seps ELSE PosixSeps

\* C6: in A and in B, with options.outputDir set, the directory of every
\* output template and every directory downloadVideo creates is
\* options.outputDir.
C6_OutputDirVerbatim ==
    opts.outputDir # <<>> =>
        /\ \A i \in 1..Len(requests) :
             Dirname(requests[i].output) = Normalize(opts.outputDir, Seps)
        /\ \A i \in 1..Len(mkdirs) : mkdirs[i] = Normalize(opts.outputDir, Seps)

\* the folder-name option of the entry point
FolderOption == IF entry = "B" THEN opts.folderNameDash ELSE opts.folderName
ParentOption == IF entry = "B" THEN opts.parentFolderDash ELSE opts.parentFolder
Base == IF entry = "B" THEN mediaFolder ELSE BaseA \o <<"/", "youtubes">>

\* C7: in A and in B, with no output directory the target directory is
\* <base>/<parentFolder if set>/<F>, F the sanitized, placeholder-substituted
\* folder-name option if set, else video title.
C7_FolderNameDecides ==
    opts.outputDir = <<>> =>
        LET X == IF FolderOption # <<>> THEN FolderOption ELSE title
            F == sanitizeFolderName(replacePlaceholders(X, now))
            target == PathJoin(<<Base, ParentOption, F>>, Seps)
        IN /\ \A i \in 1..Len(requests) : Dirname(requests[i].output) = target
           /\ \A i \in 1..Len(mkdirs) : mkdirs[i] = target

HasFlag(r, k) == \E kv \in r.flags : kv[1] = k

\* the format string of the claim, given whether a floor counts as configured
ClaimedFormatA(configured) ==
    IF opts.audioOnly THEN <<"bestaudio[ext=m4a]/bestaudio">>
    ELSE IF selected = "auto"
    THEN IF configured
         THEN <<"bestvideo[height>=", ToString(opts.quality[1]),
                "]+bestaudio/bestvideo+bestaudio/best">>
         ELSE <<"bestvideo+bestaudio/best">>
    ELSE <<selected>>

\* C8 as stated: a floor is configured when options.quality holds a number.
C8_AsStated ==
    entry = "A" =>
        \A i \in 1..Len(requests) :
          /\ requests[i].format = ClaimedFormatA(opts.quality # <<>>)
          /\ opts.audioOnly =>
               ~HasFlag(requests[i], "writeThumbnail")
               /\ ~HasFlag(requests[i], "writeDescription")

\* C8 (amended): in A the format is the audio-extraction selector when
\* options.audioOnly is set, without the thumbnail and description flags;
\* else for "auto" the height-floor selector when options.quality is a non-zero
\* number and "bestvideo+bestaudio/best" when it is absent, not a number or 0;
\* else the selected identifier unchanged.
C8_FormatStringA ==
    entry = "A" =>
        \A i \in 1..Len(requests) :
          /\ requests[i].format =
               ClaimedFormatA(opts.quality # <<>> /\ opts.quality[1] # 0)
          /\ opts.audioOnly =>
               ~HasFlag(requests[i], "writeThumbnail")
               /\ ~HasFlag(requests[i], "writeDescription")

\* a request of an audio-only call for which a concrete format was selected
\* and a floor was given
C8_Witness ==
    /\ entry = "A"
    /\ Len(requests) = 1
    /\ opts.audioOnly
    /\ selected # "auto"
    /\ opts.quality = <<1080>>

\* C14: in A and in B, whenever a request has been issued, the directory of
\* its output template exists, and it existed before the first request; it was
\* created at most once, with its ancestors, and not at all when it was there.
C14_DirectoryBeforeRequest ==
    /\ \A i \in 1..Len(requests) : Dirname(requests[i].output) \in dirs
    /\ Len(mkdirs) <= 1
    /\ \A i \in 1..Len(mkdirs) :
         \A n \in 1..Len(mkdirs[i]) : SubSeq(mkdirs[i], 1, n) \in dirs

-----------------------------------------------------------------------------
(* The format catalogue: organizeFormats and selectBestFormat (src/index.js) *)

MaxFormats == 3

\* the descriptors the downloader may return, but for format_id; an absent
\* (or null) height or abr is <<>>, a number n is <<n>>
Kinds ==
    { [vcodec |-> "vp9", acodec |-> "aac", height |-> h, abr |-> <<>>] :
        h \in { <<>>, <<720>>, <<1080>> } }
    \cup
    { [vcodec |-> "vp9", acodec |-> "none", height |-> h, abr |-> <<>>] :
        h \in { <<>>, <<720>>, <<1080>> } }
    \cup
    { [vcodec |-> "none", acodec |-> "aac", height |-> <<>>, abr |-> a] :
        a \in { <<>>, <<0>>, <<64>>, <<128>> } }
    \cup
    { [vcodec |-> "none", acodec |-> "aac", height |-> <<720>>, abr |-> <<64>>],
      [vcodec |-> "none", acodec |-> "none", height |-> <<>>, abr |-> <<>>] }

Descriptor(k, id) ==
    [format_id |-> id, vcodec |-> k.vcodec, acodec |-> k.acodec,
     height |-> k.height, abr |-> k.abr]

\* f.height as a condition: absent, null and 0 are false
HasHeight(f) == f.height # <<>> /\ f.height[1] # 0

\* f.abr || 0
AbrOrZero(f) == IF f.abr # <<>> THEN f.abr[1] ELSE 0

isVideoAudio(f) == f.vcodec # "none" /\ f.acodec # "none" /\ HasHeight(f)
isVideoOnly(f) == f.vcodec # "none" /\ f.acodec = "none" /\ HasHeight(f)
isAudioOnly(f) == f.vcodec = "none" /\ f.acodec # "none"

\* the comparators of the two sorts: a positive value moves b before a
Compare(cmp, a, b) ==
    IF cmp = "height" THEN b.height[1] - a.height[1]
    ELSE AbrOrZero(b) - AbrOrZero(a)

\* the tests of the filters
Test(category, f) ==
    CASE category = "videoAudio" -> isVideoAudio(f)
      [] category = "videoOnly" -> isVideoOnly(f)
      [] category = "audioOnly" -> isAudioOnly(f)

\* Array.prototype.filter
RECURSIVE Filter(_, _)
Filter(fs, category) ==
    IF fs = <<>> THEN <<>>
    ELSE (IF Test(category, Head(fs)) THEN <<Head(fs)>> ELSE <<>>)
         \o Filter(Tail(fs), category)

\* x put into the sorted sequence: it moves left past every element that
\* compares after it, so equal elements keep their order
RECURSIVE Insert(_, _, _)
Insert(sorted, x, cmp) ==
    IF sorted = <<>> THEN <<x>>
    ELSE IF Compare(cmp, sorted[Len(sorted)], x) > 0
         THEN Insert(SubSeq(sorted, 1, Len(sorted) - 1), x, cmp)
              \o <<sorted[Len(sorted)]>>
         ELSE sorted \o <<x>>

\* Array.prototype.sort with a comparator (stable)
RECURSIVE Sort(_, _)
Sort(fs, cmp) ==
    IF fs = <<>> THEN <<>>
    ELSE Insert(Sort(SubSeq(fs, 1, Len(fs) - 1), cmp), fs[Len(fs)], cmp)

\* an organizeFormats whose audio filter does not test the audio codec
organizeFormatsAnyAudio(fs) ==
    [videoAudio |-> Sort(Filter(fs, "videoAudio"), "height"),
     videoOnly |-> Sort(Filter(fs, "videoOnly"), "height"),
     audioOnly |-> Sort(SelectSeq(fs, LAMBDA f : f.vcodec = "none"), "abr")]

organizeFormats(fs) ==
    [videoAudio |-> Sort(Filter(fs, "videoAudio"), "height"),
     videoOnly |-> Sort(Filter(fs, "videoOnly"), "height"),
     audioOnly |-> Sort(Filter(fs, "audioOnly"), "abr")]

\* a selectBestFormat that takes the first of the video-only entries when
\* there is one
selectBestFormatVideoOnlyFirst(fs) ==
    LET videoFormats == Filter(fs, "videoAudio")
        videoOnlyFormats == Filter(fs, "videoOnly")
    IN IF Len(videoOnlyFormats) > 0 THEN <<Sort(videoOnlyFormats, "height")[1]>>
       ELSE IF Len(videoFormats) > 0 THEN <<Sort(videoFormats, "height")[1]>>
       ELSE <<>>

\* selectBestFormat: <<>> is null
selectBestFormat(fs) ==
    LET videoFormats == Filter(fs, "videoAudio")
        videoOnlyFormats == Filter(fs, "videoOnly")
    IN IF Len(videoFormats) > 0 THEN <<Sort(videoFormats, "height")[1]>>
       ELSE IF Len(videoOnlyFormats) > 0 THEN <<Sort(videoOnlyFormats, "height")[1]>>
       ELSE <<>>

\* the argument array after a call: filter copies, so sort reorders the copy
ArgumentAfter(fs) == fs

FmtInit ==
    /\ given \in UNION { { [i \in 1..n |-> Descriptor(k[i], i)] : k \in [1..n -> Kinds] } :
                         n \in 0..MaxFormats }
    /\ formats = given
    /\ organized = <<>>
    /\ best = <<>>
    /\ BatchIdle
    /\ DlIdle
    /\ StrIdle
    /\ CliIdle
    /\ SelIdle

FmtOrganize ==
    /\ organized = <<>>
    /\ organized' = <<organizeFormats(formats)>>
    /\ formats' = ArgumentAfter(formats)
    /\ UNCHANGED <<given, best>>
    /\ UNCHANGED notFmt

\* best holds the call's return value, "null" standing for null
FmtSelectBest ==
    /\ best = <<>>
    /\ best' = <<IF selectBestFormat(formats) = <<>> THEN "null" ELSE "found",
                 selectBestFormat(formats)>>
    /\ formats' = ArgumentAfter(formats)
    /\ UNCHANGED <<given, organized>>
    /\ UNCHANGED notFmt

FmtNext ==
    \/ FmtOrganize
    \/ FmtSelectBest

SpecFmt == FmtInit /\ [][FmtNext]_vars

-----------------------------------------------------------------------------
(* Claims about the format catalogue *)

Ids(fs) == {fs[i].format_id : i \in 1..Len(fs)}
Entries(fs) == {fs[i] : i \in 1..Len(fs)}

HeightOf(f) == f.height[1]
Present(f) == f.height # <<>>
KeyOf(key, f) == IF key = "height" THEN HeightOf(f) ELSE AbrOrZero(f)

\* non-increasing in the key; entries with equal keys in input order
OrderedBy(fs, key) ==
    \A i, j \in 1..Len(fs) :
      i < j => \/ KeyOf(key, fs[i]) > KeyOf(key, fs[j])
               \/ /\ KeyOf(key, fs[i]) = KeyOf(key, fs[j])
                  /\ fs[i].format_id < fs[j].format_id

\* C9: selectBestFormat returns the first videoAudio entry of organizeFormats
\* (of maximal height among the combined entries) when there is one, whatever
\* the video-only heights; else the first videoOnly entry; else null; never an
\* audio-only descriptor.
C9_SelectBest ==
    best # <<>> =>
        LET o == organizeFormats(given)
            r == best[2]
        IN /\ o.videoAudio # <<>> =>
                /\ r = <<o.videoAudio[1]>>
                /\ \A f \in Entries(given) :
                     f.vcodec # "none" /\ f.acodec # "none" /\ Present(f) =>
                       HeightOf(f) <= HeightOf(r[1])
           /\ o.videoAudio = <<>> /\ o.videoOnly # <<>> => r = <<o.videoOnly[1]>>
           /\ o.videoAudio = <<>> /\ o.videoOnly = <<>> => r = <<>>
           /\ r # <<>> => r[1] \in Entries(given) /\ r[1].vcodec # "none"
           /\ given = <<>> => r = <<>>

\* a combined entry was returned although a video-only entry is higher
C9_Witness ==
    /\ best # <<>>
    /\ best[2] # <<>>
    /\ best[2][1].acodec # "none"
    /\ \E f \in Entries(given) :
         f.acodec = "none" /\ f.vcodec # "none" /\ Present(f)
         /\ HeightOf(f) > HeightOf(best[2][1])

\* C10: organizeFormats partitions by codec and resolution exactly as stated,
\* sorts the video categories by height and audioOnly by bitrate (missing = 0),
\* non-increasing and stable, and leaves the input array as it was.
C10_Organize ==
    organized # <<>> =>
        LET o == organized[1]
            va == {f \in Entries(given) :
                     f.vcodec # "none" /\ f.acodec # "none" /\ Present(f)}
            vo == {f \in Entries(given) :
                     f.vcodec # "none" /\ f.acodec = "none" /\ Present(f)}
            au == {f \in Entries(given) : f.vcodec = "none" /\ f.acodec # "none"}
        IN /\ Entries(o.videoAudio) = va
           /\ Entries(o.videoOnly) = vo
           /\ Entries(o.audioOnly) = au
           /\ Len(o.videoAudio) = Cardinality(va)
           /\ Len(o.videoOnly) = Cardinality(vo)
           /\ Len(o.audioOnly) = Cardinality(au)
           /\ Ids(o.videoAudio) \cap Ids(o.videoOnly) = {}
           /\ Ids(o.videoAudio) \cap Ids(o.audioOnly) = {}
           /\ Ids(o.videoOnly) \cap Ids(o.audioOnly) = {}
           /\ \A f \in Entries(o.videoAudio) \cup Entries(o.videoOnly) : Present(f)
           /\ OrderedBy(o.videoAudio, "height")
           /\ OrderedBy(o.videoOnly, "height")
           /\ OrderedBy(o.audioOnly, "abr")
           /\ formats = given

\* two audio-only entries that the sort had to swap, an audio-only entry
\* without bitrate, and a combined entry without resolution
C10_Witness ==
    /\ organized # <<>>
    /\ Len(organized[1].audioOnly) = 2
    /\ organized[1].audioOnly[1].format_id > organized[1].audioOnly[2].format_id
    /\ \E f \in Entries(given) : f.abr = <<>> /\ f.vcodec = "none" /\ f.acodec # "none"
    /\ \E f \in Entries(given) : f.vcodec # "none" /\ f.acodec # "none" /\ ~Present(f)

-----------------------------------------------------------------------------
(* replacePlaceholders and sanitizeFolderName, called on their own
   (src/index.js and src/bin/index.js hold the same two functions) *)

MaxPieces == 2

\* the names of the fifteen tokens, in the order the source replaces them
TokenNames ==
    << <<"f", "u", "l", "l", "T", "i", "m", "e">>, <<"d", "a", "t", "e">>,
       <<"y", "e", "a", "r">>, <<"y">>, <<"m", "o", "n", "t", "h">>, <<"m">>,
       <<"d", "a", "y">>, <<"d">>, <<"t", "i", "m", "e">>, <<"h", "o", "u", "r">>,
       <<"h">>, <<"m", "i", "n", "u", "t", "e">>, <<"m", "i", "n">>,
       <<"s", "e", "c", "o", "n", "d">>, <<"s", "e", "c">> >>

\* the parts templates are made of: each token, three of them followed by a
\* hyphen, unknown tokens, and pieces of tokens
TemplatePieces ==
    {Token(TokenNames[i]) : i \in 1..Len(TokenNames)}
    \cup {Token(TokenNames[i]) \o <<"-">> : i \in {2, 5, 13}}
    \cup { <<"{">>, <<"}">>, <<"m">>, <<"{", "x", "}">>, <<"{", "M", "}">>,
           <<"e", "a", "r", "}">>, <<"{", "m", "i", "n">> }

RECURSIVE Concat(_)
Concat(parts) == IF parts = <<>> THEN <<>> ELSE Head(parts) \o Concat(Tail(parts))

Templates ==
    UNION { {Concat(ps) : ps \in [1..n -> TemplatePieces]} : n \in 0..MaxPieces }

\* the readings of the clock: 2026-03-05 14:07:59 and 1999-12-31 23:00:09
StrClocks ==
    { [fullYear |-> 2026, month |-> 2, date |-> 5,
       hours |-> 14, minutes |-> 7, seconds |-> 59],
      [fullYear |-> 1999, month |-> 11, date |-> 31,
       hours |-> 23, minutes |-> 0, seconds |-> 9] }

\* the parts the names given to sanitizeFolderName start with
NamePieces ==
    { <<" ">>, <<" ", "\t">>, <<"!">>, <<"/">>, <<"?">>, <<":">>, <<"-">>, <<"_">>,
      <<".">>, <<"A">>, <<"z">>, <<"9">>, <<"U+D55C">>, <<"U+3131">>, <<"U+3042">>,
      <<"U+00E9">> }

\* the lengths of the run of letters that follows, around the limit
RunLengths == {0, FolderNameLimit - 1, FolderNameLimit}

\* the parts the names end with
NameTails == { <<>>, <<" ", " ">>, <<"!", "b">> }

Repeat(c, n) == [i \in 1..n |-> c]

Names ==
    { Concat(ps) \o Repeat("a", k) \o tail :
        ps \in UNION { [1..n -> NamePieces] : n \in 0..MaxPieces },
        k \in RunLengths, tail \in NameTails }

StrInit ==
    /\ callee \in {"replacePlaceholders", "sanitizeFolderName"}
    /\ text \in IF callee = "replacePlaceholders" THEN Templates ELSE Names
    /\ today \in IF callee = "replacePlaceholders" THEN StrClocks
                ELSE {CHOOSE t \in StrClocks : t.month = 2}
    /\ ret = <<>>
    /\ BatchIdle
    /\ DlIdle
    /\ FmtIdle
    /\ CliIdle
    /\ SelIdle

\* replacePlaceholders(text) returns
StrReplace ==
    /\ callee = "replacePlaceholders"
    /\ ret = <<>>
    /\ ret' = <<replacePlaceholders(text, today)>>
    /\ UNCHANGED <<callee, text, today>>
    /\ UNCHANGED notStr

\* sanitizeFolderName(text) returns
StrSanitize ==
    /\ callee = "sanitizeFolderName"
    /\ ret = <<>>
    /\ ret' = <<sanitizeFolderName(text)>>
    /\ UNCHANGED <<callee, text, today>>
    /\ UNCHANGED notStr

StrNext ==
    \/ StrReplace
    \/ StrSanitize

SpecStr == StrInit /\ [][StrNext]_vars

-----------------------------------------------------------------------------
(* Claims about the string functions *)

\* the fields of the date-time context, in the order of TokenNames
Fields(t) ==
    LET dt == getCurrentDateTime(t)
    IN <<dt.fullTime, dt.date, dt.year, dt.y, dt.month, dt.m, dt.day, dt.d,
         dt.time, dt.hour, dt.h, dt.minute, dt.min, dt.second, dt.sec>>

\* the tokens that start s
TokensAt(s) == {i \in 1..Len(TokenNames) : StartsWith(s, Token(TokenNames[i]))}

\* one pass over the template: a recognized token becomes its field, any
\* other character stays
RECURSIVE Substitute(_, _)
Substitute(s, t) ==
    IF s = <<>> THEN <<>>
    ELSE IF TokensAt(s) # {}
         THEN LET i == CHOOSE k \in TokensAt(s) : TRUE
              IN Fields(t)[i]
                 \o Substitute(SubSeq(s, Len(TokenNames[i]) + 3, Len(s)), t)
         ELSE <<Head(s)>> \o Substitute(Tail(s), t)

\* the global replacements made in the given order of the tokens
RECURSIVE ReplaceInOrder(_, _, _)
ReplaceInOrder(s, order, t) ==
    IF order = <<>> THEN s
    ELSE ReplaceInOrder(
             ReplaceAll(s, Token(TokenNames[Head(order)]), Fields(t)[Head(order)]),
             Tail(order), t)

\* the orders tried: the reverse of the source's, the one-letter tokens
\* first, and the source's order taken from its middle
Orders ==
    { [i \in 1..15 |-> 16 - i],
      <<4, 6, 8, 11, 13, 15, 1, 2, 3, 5, 7, 9, 10, 12, 14>>,
      [i \in 1..15 |-> ((i + 6) % 15) + 1] }

HasToken(s) == \E n \in 1..Len(s) : TokensAt(SubSeq(s, n, Len(s))) # {}

MonthAndM == Token(TokenNames[5]) \o <<"-">> \o Token(TokenNames[6])

\* C11: replacePlaceholders replaces every occurrence of each of the fifteen
\* tokens by its field and keeps every other character, unknown and malformed
\* tokens included; the order of the replacements does not matter
\* ("{month}-{m}" in March gives "03-03"); a template without recognized
\* tokens is returned unchanged.
C11_Placeholders ==
    callee = "replacePlaceholders" /\ ret # <<>> =>
        /\ ret[1] = Substitute(text, today)
        /\ \A o \in Orders : ReplaceInOrder(text, o, today) = ret[1]
        /\ ~HasToken(text) => ret[1] = text
        /\ text = MonthAndM /\ today.month = 2 =>
             ret[1] = <<"0", "3", "-", "0", "3">>

\* "{month}-{m}" has been replaced in March
C11_Witness ==
    /\ callee = "replacePlaceholders"
    /\ ret # <<>>
    /\ text = MonthAndM
    /\ today.month = 2

Allowed(c) == c \in WordChars \cup {"-"} \/ IsKorean(c)

\* the name as one pass leaves it: a forbidden character becomes '_', so does
\* the first character of a run of whitespace, the rest of the run goes; any
\* other character stays if it is allowed and goes if not
Clean(s) ==
    LET kept == SelectSeq([i \in 1..Len(s) |-> i],
                          LAMBDA i : IF s[i] \in Whitespace
                                     THEN i = 1 \/ s[i - 1] \notin Whitespace
                                     ELSE s[i] \in Forbidden \/ Allowed(s[i]))
    IN [k \in 1..Len(kept) |->
          IF s[kept[k]] \in Whitespace \cup Forbidden THEN "_" ELSE s[kept[k]]]

\* C12: sanitizeFolderName returns the first 100 characters of the name with
\* forbidden characters replaced by '_', runs of whitespace by one '_', and
\* every other character that is not allowed deleted: at most 100 characters,
\* all allowed, the cut made after the cleaning.
C12_Sanitize ==
    callee = "sanitizeFolderName" /\ ret # <<>> =>
        /\ Len(ret[1]) <= 100
        /\ \A i \in 1..Len(ret[1]) : Allowed(ret[1][i])
        /\ IsPrefix(ret[1], Clean(text))
        /\ Len(ret[1]) = 100 \/ ret[1] = Clean(text)

\* a name of more than 100 characters that loses one of its first 100 and is
\* still cut
C12_Witness ==
    /\ callee = "sanitizeFolderName"
    /\ ret # <<>>
    /\ Len(text) > 100
    /\ \E i \in 1..100 : ~Allowed(text[i]) /\ text[i] \notin Whitespace \cup Forbidden
    /\ Len(ret[1]) = 100
    /\ Len(Clean(text)) > 100

-----------------------------------------------------------------------------
(* main of entry point A (src/index.js) and of entry point B
   (src/bin/index.js): the arguments, the calls made, how the process ends *)

MaxArgs == 3

\* the options the two programs know, as the strings compared with the arguments
Opt ==
    [help |-> <<"-", "-", "h", "e", "l", "p">>,
     h |-> <<"-", "h">>,
     desc |-> <<"-", "-", "d", "e", "s", "c">>,
     description |-> <<"-", "-", "d", "e", "s", "c", "r", "i", "p", "t", "i", "o", "n">>,
     json |-> <<"-", "-", "j", "s", "o", "n">>,
     parentFolderDash |-> <<"-", "-", "p", "a", "r", "e", "n", "t", "-", "f", "o", "l", "d", "e", "r">>,
     folderNameDash |-> <<"-", "-", "f", "o", "l", "d", "e", "r", "-", "n", "a", "m", "e">>,
     outputDir |-> <<"-", "-", "o", "u", "t", "p", "u", "t", "-", "d", "i", "r">>,
     filename |-> <<"-", "-", "f", "i", "l", "e", "n", "a", "m", "e">>,
     folderName |-> <<"-", "-", "f", "o", "l", "d", "e", "r", "N", "a", "m", "e">>,
     parentFolder |-> <<"-", "-", "p", "a", "r", "e", "n", "t", "F", "o", "l", "d", "e", "r">>,
     audioOnly |-> <<"-", "-", "a", "u", "d", "i", "o", "-", "o", "n", "l", "y">>,
     quality |-> <<"-", "-", "q", "u", "a", "l", "i", "t", "y">>,
     auto |-> <<"-", "-", "a", "u", "t", "o">>]

DashDash == <<"-", "-">>
YoutubeCom == <<"y", "o", "u", "t", "u", "b", "e", ".", "c", "o", "m">>
YoutuBe == <<"y", "o", "u", "t", "u", ".", "b", "e">>
WatchPrefix == <<"h", "t", "t", "p", "s", ":", "/", "/", "w", "w", "w", ".", "y", "o", "u", "t", "u", "b", "e", ".", "c", "o", "m", "/", "w", "a", "t", "c", "h", "?", "v", "=">>

\* arguments that are not options: a URL, a video identifier, an
\* identifier with a character the pattern excludes, a word, a number
Word ==
    [url |-> <<"y", "o", "u", "t", "u", ".", "b", "e", "/", "x">>,
     id |-> <<"d", "Q", "w", "4", "w", "9", "W", "g", "X", "c", "Q">>,
     badId |-> <<"d", "Q", "w", "4", "w", "9", "W", "g", "X", "c", "!">>,
     plain |-> <<"a", "b", "c">>,
     number |-> <<"1", "0", "8", "0">>]

ArgWordsA ==
    {Opt.help, Opt.folderName, Opt.parentFolder, Opt.outputDir, Opt.filename,
     Opt.audioOnly, Opt.quality, Opt.auto, Word.url, Word.plain, Word.number}

ArgWordsB ==
    {Opt.help, Opt.h, Opt.desc, Opt.description, Opt.json, Opt.folderNameDash,
     Opt.outputDir, Opt.filename, Word.url, Word.id, Word.badId, Word.plain}

Range(seq) == {seq[i] : i \in 1..Len(seq)}

DigitValue(c) == CHOOSE d \in 0..9 : DigitChar(d) = c

\* the value of the digits s starts with, given the value acc of those read
RECURSIVE LeadingDigits(_, _)
LeadingDigits(s, acc) ==
    IF s = <<>> \/ Head(s) \notin Digits THEN acc
    ELSE LeadingDigits(Tail(s), 10 * acc + DigitValue(Head(s)))

\* parseInt(s): <<>> is NaN (also for undefined)
ParseInt(s) ==
    LET t == TrimStart(s)
        negative == t # <<>> /\ Head(t) = "-"
        u == IF t # <<>> /\ Head(t) \in {"-", "+"} THEN Tail(t) ELSE t
    IN IF u = <<>> \/ Head(u) \notin Digits THEN <<>>
       ELSE <<(IF negative THEN -1 ELSE 1) * LeadingDigits(u, 0)>>

\* the messages main prints
Usage == <<"usage">>
UrlNeeded == <<"error", "a URL is needed">>
UrlInvalid == <<"error", "not a valid URL">>
NotSetUp == <<"error", "the downloader is not set up">>
Created(dir) == <<"created", dir>>
Expanded(u) == <<"expanded", u>>
Prefixed(message) == <<"error: ", message>>

\* getVideoInfo: throw new Error(`... ${error.message}`)
InfoFailed(message) == <<"InfoFailed", message>>

Call(kind, u) == [kind |-> kind, url |-> u, status |-> "pending", message |-> ""]

\* the call in flight ends, well or with message m
Settled(status, m) ==
    [calls EXCEPT ![Len(calls)].status = status, ![Len(calls)].message = m]

\* ---- entry point A ----

ValueOptionsA == {Opt.folderName, Opt.parentFolder, Opt.outputDir, Opt.filename, Opt.quality}

\* main, the switch: the option a sets, v being args[++i]
setOptionA(o, a, v) ==
    CASE a = Opt.folderName -> [o EXCEPT !.folderName = v]
      [] a = Opt.parentFolder -> [o EXCEPT !.parentFolder = v]
      [] a = Opt.outputDir -> [o EXCEPT !.outputDir = v]
      [] a = Opt.filename -> [o EXCEPT !.filename = v]
      [] a = Opt.audioOnly -> [o EXCEPT !.audioOnly = TRUE]
      [] a = Opt.quality -> [o EXCEPT !.quality = ParseInt(v)]
      [] a = Opt.auto -> [o EXCEPT !.auto = TRUE]
      [] OTHER -> o

\* main, the parsing loop from index i on (the first argument has index 1):
\* an option that takes a value moves i to the next argument, and
\* args[i].startsWith then reads that argument, present or not
RECURSIVE parseA(_, _, _, _)
parseA(as, i, o, remainingArgs) ==
    IF i > Len(as)
    THEN [threw |-> FALSE, options |-> o, remainingArgs |-> remainingArgs]
    ELSE LET skipNext == as[i] \in ValueOptionsA
             j == IF skipNext THEN i + 1 ELSE i
             v == IF j <= Len(as) THEN as[j] ELSE <<>>
             o2 == setOptionA(o, as[i], v)
         IN IF j > Len(as)
            THEN [threw |-> TRUE, options |-> o2, remainingArgs |-> remainingArgs]
            ELSE parseA(as, j + 1, o2,
                        IF ~StartsWith(as[j], DashDash) /\ ~skipNext
                        THEN Append(remainingArgs, as[j])
                        ELSE remainingArgs)

\* main: the YouTube URL test
isYoutubeUrl(u) == Includes(u, YoutubeCom) \/ Includes(u, YoutuBe)

\* main: url, when the loop has ended without throwing
urlA(as) == parseA(as, 1, NoOptions, <<>>).remainingArgs[1]

\* ---- entry point B ----

\* args.indexOf(flag) + 1, 0 when the flag is not there
IndexOf(as, flag) ==
    IF flag \in Range(as) THEN CHOOSE i \in 1..Len(as) :
                                 as[i] = flag /\ \A k \in 1..(i - 1) : as[k] # flag
    ELSE 0

\* main, optionsMap: the value of the option flag, <<>> when it is not set
valueB(as, flag) ==
    LET index == IndexOf(as, flag)
    IN IF index # 0 /\ index + 1 <= Len(as) /\ ~StartsWith(as[index + 1], DashDash)
       THEN as[index + 1]
       ELSE <<>>

\* main: the options object
parseB(as) ==
    [NoOptions EXCEPT
       !.description = Opt.desc \in Range(as) \/ Opt.description \in Range(as),
       !.json = Opt.json \in Range(as),
       !.parentFolderDash = valueB(as, Opt.parentFolderDash),
       !.folderNameDash = valueB(as, Opt.folderNameDash),
       !.outputDir = valueB(as, Opt.outputDir),
       !.filename = valueB(as, Opt.filename)]

\* main, the test of args.find
isUrlArgument(as, index) ==
    /\ ~StartsWith(as[index], DashDash)
    /\ ~(index > 1 /\ StartsWith(as[index - 1], DashDash))

\* main: url as args.find returns it; <<>> is undefined (and '')
findUrl(as) ==
    IF \E i \in 1..Len(as) : isUrlArgument(as, i)
    THEN as[CHOOSE i \in 1..Len(as) :
              isUrlArgument(as, i) /\ \A k \in 1..(i - 1) : ~isUrlArgument(as, k)]
    ELSE <<>>

\* /^[a-zA-Z0-9_-]{11}$/.test(u)
youtubeIdPattern(u) ==
    Len(u) = 11 /\ \A i \in 1..Len(u) : u[i] \in Lower \cup Upper \cup Digits \cup {"_", "-"}

\* ---- the steps of main ----

CliInit ==
    /\ prog \in {"A", "B"}
    /\ args \in UNION { [1..n -> IF prog = "A" THEN ArgWordsA ELSE ArgWordsB] :
                        n \in 0..MaxArgs }
    /\ step = "start"
    /\ parsed = NoOptions
    /\ calls = <<>>
    /\ printed = <<>>
    /\ ended = ""
    /\ BatchIdle
    /\ DlIdle
    /\ FmtIdle
    /\ StrIdle
    /\ SelIdle

Returns(output) ==
    /\ printed' = printed \o output
    /\ ended' = "returned"
    /\ step' = "done"

\* catch (error) { console.error(...); process.exit(1) }
Exits(message) ==
    /\ printed' = Append(printed, Prefixed(message))
    /\ ended' = "exit1"
    /\ step' = "done"

\* A, main up to the first await: help, the parsing loop, the URL tests, and
\* the call that probes the downloader; a TypeError of the loop leaves main
\* as a rejected promise
A_Start ==
    /\ prog = "A" /\ step = "start"
    /\ IF Opt.help \in Range(args) \/ Len(args) = 0
       THEN Returns(<<Usage>>) /\ UNCHANGED <<parsed, calls>>
       ELSE LET r == parseA(args, 1, NoOptions, <<>>)
            IN /\ parsed' = r.options
               /\ IF r.threw
                  THEN /\ ended' = "threw" /\ step' = "done"
                       /\ UNCHANGED <<calls, printed>>
                  ELSE IF Len(r.remainingArgs) = 0
                  THEN Returns(<<UrlNeeded, Usage>>) /\ UNCHANGED calls
                  ELSE IF ~isYoutubeUrl(r.remainingArgs[1])
                  THEN Returns(<<UrlInvalid>>) /\ UNCHANGED calls
                  ELSE /\ calls' = Append(calls, Call("probe", <<>>))
                       /\ step' = "probe"
                       /\ UNCHANGED <<printed, ended>>
    /\ UNCHANGED <<prog, args>>
    /\ UNCHANGED notCli

\* A, main: checkYoutubeDl has answered; then the output directory is made and
\* the metadata is asked for
A_ProbeSettle ==
    /\ prog = "A" /\ step = "probe"
    /\ \/ /\ calls' = Settled("failed", "")
          /\ Returns(<<NotSetUp>>)
       \/ \E existed \in BOOLEAN, canCreate \in BOOLEAN :
            /\ ~TruthyString(parsed.outputDir) => existed /\ canCreate
            /\ existed => canCreate
            /\ IF canCreate
               THEN /\ calls' = Append(Settled("ok", ""), Call("fetch", urlA(args)))
                    /\ printed' = printed \o (IF existed THEN <<>>
                                              ELSE <<Created(parsed.outputDir)>>)
                    /\ step' = "fetch"
                    /\ UNCHANGED ended
               ELSE /\ calls' = Settled("ok", "")
                    /\ Exits(FsMessage)
    /\ UNCHANGED <<prog, args, parsed>>
    /\ UNCHANGED notCli

\* A, main: getVideoInfo has ended; with --auto downloadVideo is called at
\* once, else selectFormat asks first
A_FetchSettle ==
    /\ prog = "A" /\ step = "fetch"
    /\ \/ /\ IF parsed.auto
             THEN /\ calls' = Append(Settled("ok", ""), Call("download", urlA(args)))
                  /\ step' = "download"
             ELSE /\ calls' = Settled("ok", "")
                  /\ step' = "prompt"
          /\ UNCHANGED <<printed, ended>>
       \/ \E m \in Messages :
            /\ calls' = Settled("failed", m)
            /\ Exits(InfoFailed(m))
    /\ UNCHANGED <<prog, args, parsed>>
    /\ UNCHANGED notCli

\* A, main: selectFormat has returned; downloadVideo is called
A_PromptSettle ==
    /\ prog = "A" /\ step = "prompt"
    /\ calls' = Append(calls, Call("download", urlA(args)))
    /\ step' = "download"
    /\ UNCHANGED <<prog, args, parsed, printed, ended>>
    /\ UNCHANGED notCli

\* A, main: downloadVideo has ended
A_DownloadSettle ==
    /\ prog = "A" /\ step = "download"
    /\ \/ /\ calls' = Settled("ok", "")
          /\ Returns(<<>>)
       \/ \E m \in Messages :
            /\ calls' = Settled("failed", m)
            /\ Exits(DownloadFailed(m))
    /\ UNCHANGED <<prog, args, parsed>>
    /\ UNCHANGED notCli

\* B, main up to the first await: help, the options, the URL or identifier,
\* and the call for the metadata
B_Start ==
    /\ prog = "B" /\ step = "start"
    /\ IF Opt.help \in Range(args) \/ Opt.h \in Range(args) \/ Len(args) = 0
       THEN Returns(<<Usage>>) /\ UNCHANGED <<parsed, calls>>
       ELSE LET u == findUrl(args)
            IN /\ parsed' = parseB(args)
               /\ IF ~TruthyString(u)
                  THEN Returns(<<UrlNeeded, Usage>>) /\ UNCHANGED calls
                  ELSE IF isYoutubeUrl(u)
                  THEN /\ calls' = Append(calls, Call("fetch", u))
                       /\ step' = "fetch"
                       /\ UNCHANGED <<printed, ended>>
                  ELSE IF youtubeIdPattern(u)
                  THEN /\ calls' = Append(calls, Call("fetch", WatchPrefix \o u))
                       /\ printed' = Append(printed, Expanded(WatchPrefix \o u))
                       /\ step' = "fetch"
                       /\ UNCHANGED ended
                  ELSE Returns(<<UrlInvalid>>) /\ UNCHANGED calls
    /\ UNCHANGED <<prog, args>>
    /\ UNCHANGED notCli

\* B, main: getVideoInfo has ended; downloadVideo is called with the same URL
B_FetchSettle ==
    /\ prog = "B" /\ step = "fetch"
    /\ \/ /\ calls' = Append(Settled("ok", ""), Call("download", calls[Len(calls)].url))
          /\ step' = "download"
          /\ UNCHANGED <<printed, ended>>
       \/ \E m \in Messages :
            /\ calls' = Settled("failed", m)
            /\ Exits(InfoFailed(m))
    /\ UNCHANGED <<prog, args, parsed>>
    /\ UNCHANGED notCli

\* B, main: downloadVideo has ended
B_DownloadSettle ==
    /\ prog = "B" /\ step = "download"
    /\ \/ /\ calls' = Settled("ok", "")
          /\ Returns(<<>>)
       \/ \E m \in Messages :
            /\ calls' = Settled("failed", m)
            /\ Exits(DownloadFailed(m))
    /\ UNCHANGED <<prog, args, parsed>>
    /\ UNCHANGED notCli

CliNext ==
    \/ A_Start
    \/ A_ProbeSettle
    \/ A_FetchSettle
    \/ A_PromptSettle
    \/ A_DownloadSettle
    \/ B_Start
    \/ B_FetchSettle
    \/ B_DownloadSettle

SpecCli == CliInit /\ [][CliNext]_vars

-----------------------------------------------------------------------------
(* Claims about main *)

\* the options that take a value, by entry point
ValueOptions ==
    IF prog = "B" THEN {Opt.parentFolderDash, Opt.folderNameDash, Opt.outputDir, Opt.filename}
    ELSE ValueOptionsA

\* the arguments from index i on that are neither an option nor the value of
\* an option, an option that takes a value taking the argument after it
RECURSIVE PositionalsFrom(_)
PositionalsFrom(i) ==
    IF i > Len(args) THEN {}
    ELSE IF args[i] \in ValueOptions THEN PositionalsFrom(i + 2)
    ELSE IF StartsWith(args[i], DashDash) THEN PositionalsFrom(i + 1)
    ELSE {i} \cup PositionalsFrom(i + 1)

\* the arguments that are neither an option nor the value of an option: in B
\* a value is an argument that stands right after an option that takes one
Positionals ==
    IF prog = "B"
    THEN {i \in 1..Len(args) :
            /\ ~StartsWith(args[i], DashDash)
            /\ ~(i > 1 /\ args[i - 1] \in ValueOptions)}
    ELSE PositionalsFrom(1)

\* the first of them, <<>> when there is none
Positional ==
    IF Positionals = {} THEN <<>>
    ELSE args[CHOOSE i \in Positionals : \A k \in Positionals : i <= k]

HelpAsked ==
    \/ Len(args) = 0
    \/ Opt.help \in Range(args)
    \/ prog = "B" /\ Opt.h \in Range(args)

IsUrl(u) == Includes(u, YoutubeCom) \/ Includes(u, YoutuBe)
IsId(u) == Len(u) = 11 /\ \A i \in 1..Len(u) : u[i] \in WordChars \cup {"-"}

\* the positional is missing, or is not acceptable to the entry point
UrlMissingOrInvalid ==
    \/ Positional = <<>>
    \/ ~IsUrl(Positional) /\ ~(prog = "B" /\ IsId(Positional))

\* C13: with no arguments or --help main prints the usage and returns with no
\* external call; with a missing or invalid URL it prints an error and
\* returns normally, without throwing and without a metadata fetch or a
\* download; a failed metadata fetch or download ends with a prefixed error
\* and exit status 1, and no download follows a failed metadata fetch.
C13_ExitBehaviour ==
    prog # "none" /\ step # "start" =>
        /\ HelpAsked =>
             printed = <<Usage>> /\ calls = <<>> /\ ended = "returned"
        /\ ~HelpAsked /\ UrlMissingOrInvalid =>
             /\ ended = "returned"
             /\ \E i \in 1..Len(printed) : printed[i][1] = "error"
             /\ \A i \in 1..Len(calls) : calls[i].kind \notin {"fetch", "download"}
        /\ \A i \in 1..Len(calls) :
             calls[i].kind \in {"fetch", "download"} /\ calls[i].status = "failed" =>
               /\ i = Len(calls)
               /\ ended = "exit1"
               /\ printed # <<>>
               /\ printed[Len(printed)][1] = "error: "
        /\ \A i \in 1..Len(calls) :
             calls[i].kind = "download" =>
               \E j \in 1..(i - 1) : calls[j].kind = "fetch" /\ calls[j].status = "ok"

\* C16: in B the argument taken as the URL or identifier is the first one that
\* is neither an option nor the value of --parent-folder, --folder-name,
\* --output-dir or --filename, wherever it stands; an identifier of 11
\* characters is expanded to a watch URL, and any other argument that is not a
\* URL is rejected before any metadata fetch.
C16_UrlArgument ==
    prog = "B" /\ step # "start" /\ ~HelpAsked =>
        /\ IsUrl(Positional) =>
             calls # <<>> /\ calls[1].kind = "fetch" /\ calls[1].url = Positional
        /\ ~IsUrl(Positional) /\ IsId(Positional) =>
             /\ calls # <<>>
             /\ calls[1].kind = "fetch"
             /\ calls[1].url = WatchPrefix \o Positional
        /\ ~IsUrl(Positional) /\ ~IsId(Positional) =>
             calls = <<>> /\ ended = "returned"

-----------------------------------------------------------------------------
(* The choice of a format in entry point A: selectFormat and the part of main
   that calls it (src/index.js) *)

\* how many entries more than selectFormat offers a category may hold
MaxExtra == 1

VideoAudioCap == 10
VideoOnlyCap == 10
AudioOnlyCap == 5

\* the sizes of a category: none, one, and around the number offered
Sizes(cap) == {0, 1} \cup {n \in (cap - 1)..(cap + MaxExtra) : n >= 0}

\* the k-th entry of its category: heights rise in pairs and bitrates rise with
\* k, so that the sort has to reverse the order and to keep that of equal
\* heights; the first audio entry has no bitrate
EntryOf(category, k) ==
    CASE category = "videoAudio" ->
           [vcodec |-> "vp9", acodec |-> "aac", height |-> <<144 * ((k + 1) \div 2)>>,
            abr |-> <<>>]
      [] category = "videoOnly" ->
           [vcodec |-> "vp9", acodec |-> "none", height |-> <<144 * ((k + 1) \div 2)>>,
            abr |-> <<>>]
      [] category = "audioOnly" ->
           [vcodec |-> "none", acodec |-> "aac", height |-> <<>>,
            abr |-> IF k = 1 THEN <<>> ELSE <<32 * k>>]

\* a catalogue of a audio-only, c combined and v video-only entries; format_id
\* is the position, as a string
Catalogue(a, c, v) ==
    [i \in 1..(a + c + v) |->
        Descriptor(IF i <= a THEN EntryOf("audioOnly", i)
                   ELSE IF i <= a + c THEN EntryOf("videoAudio", i - a)
                   ELSE EntryOf("videoOnly", i - a - c),
                   ToString(i))]

\* array.slice(0, n)
Slice(array, n) == SubSeq(array, 1, IF Len(array) < n THEN Len(array) ELSE n)

\* selectFormat: a choice that cannot be selected (a heading, the rule)
Disabled(name) == [name |-> name, value |-> "", disabled |-> TRUE]

\* selectFormat: the choices made of the entries fs of one category
ChoicesOfEntries(fs) == [i \in 1..Len(fs) |-> [name |-> "format", value |-> fs[i].format_id,
                                       disabled |-> FALSE]]

\* the choices of a selectFormat that offers ten audio-only entries
choicesWithTenAudio(fs) ==
    LET o == organizeFormats(fs)
    IN (IF Len(o.videoAudio) > 0
        THEN <<Disabled("videoAudio")>>
             \o ChoicesOfEntries(Slice(o.videoAudio, VideoAudioCap))
        ELSE <<>>)
       \o (IF Len(o.videoOnly) > 0
           THEN <<Disabled("videoOnly")>>
                \o ChoicesOfEntries(Slice(o.videoOnly, VideoOnlyCap))
           ELSE <<>>)
       \o (IF Len(o.audioOnly) > 0
           THEN <<Disabled("audioOnly")>>
                \o ChoicesOfEntries(Slice(o.audioOnly, VideoOnlyCap))
           ELSE <<>>)
       \o <<Disabled("rule"), [name |-> "auto", value |-> "auto", disabled |-> FALSE]>>

\* selectFormat: choices, as handed to the prompt
choicesOf(fs) ==
    LET o == organizeFormats(fs)
    IN (IF Len(o.videoAudio) > 0
        THEN <<Disabled("videoAudio")>>
             \o ChoicesOfEntries(Slice(o.videoAudio, VideoAudioCap))
        ELSE <<>>)
       \o (IF Len(o.videoOnly) > 0
           THEN <<Disabled("videoOnly")>>
                \o ChoicesOfEntries(Slice(o.videoOnly, VideoOnlyCap))
           ELSE <<>>)
       \o (IF Len(o.audioOnly) > 0
           THEN <<Disabled("audioOnly")>>
                \o ChoicesOfEntries(Slice(o.audioOnly, AudioOnlyCap))
           ELSE <<>>)
       \o <<Disabled("rule"), [name |-> "auto", value |-> "auto", disabled |-> FALSE]>>

SelInit ==
    /\ given \in { Catalogue(a, c, v) : a \in Sizes(AudioOnlyCap),
                                        c \in Sizes(VideoAudioCap),
                                        v \in Sizes(VideoOnlyCap) }
    /\ formats = given
    /\ organized = <<>>
    /\ best = <<>>
    /\ autoFlag \in BOOLEAN
    /\ choices = <<>>
    /\ answer = <<>>
    /\ BatchIdle
    /\ DlIdle
    /\ StrIdle
    /\ CliIdle

\* main, options.auto: selectedFormat = 'auto', selectFormat is not called
SelAuto ==
    /\ autoFlag
    /\ answer = <<>>
    /\ answer' = <<"auto">>
    /\ UNCHANGED <<autoFlag, choices>>
    /\ UNCHANGED fmtVars
    /\ UNCHANGED notSel

\* main, no options.auto: selectFormat(videoInfo.formats) builds the choices and
\* shows the prompt
SelPrompt ==
    /\ ~autoFlag
    /\ choices = <<>>
    /\ choices' = <<choicesOf(formats)>>
    /\ formats' = ArgumentAfter(formats)
    /\ UNCHANGED <<autoFlag, answer>>
    /\ UNCHANGED <<given, organized, best>>
    /\ UNCHANGED notSel

\* the prompt returns the value of a choice that is not disabled
SelAnswer ==
    /\ choices # <<>>
    /\ answer = <<>>
    /\ \E i \in 1..Len(choices[1]) :
         /\ ~choices[1][i].disabled
         /\ answer' = <<choices[1][i].value>>
    /\ UNCHANGED <<autoFlag, choices>>
    /\ UNCHANGED fmtVars
    /\ UNCHANGED notSel

SelNext ==
    \/ SelAuto
    \/ SelPrompt
    \/ SelAnswer
    \/ FmtSelectBest

SpecSel == SelInit /\ [][SelNext]_vars

-----------------------------------------------------------------------------
(* Claims about the choice of a format *)

\* the values of the choices that can be selected, in the order shown
Offered ==
    LET c == SelectSeq(choices[1], LAMBDA x : ~x.disabled)
    IN [i \in 1..Len(c) |-> c[i].value]

\* the identifiers of the first n (or fewer) entries of a sorted category
FirstIds(category, n) ==
    LET sorted == organizeFormats(given)[category]
    IN [i \in 1..(IF Len(sorted) < n THEN Len(sorted) ELSE n) |-> sorted[i].format_id]

InCategory(category, f) ==
    CASE category = "videoAudio" -> f.vcodec # "none" /\ f.acodec # "none" /\ Present(f)
      [] category = "videoOnly" -> f.vcodec # "none" /\ f.acodec = "none" /\ Present(f)
      [] category = "audioOnly" -> f.vcodec = "none" /\ f.acodec # "none"

QualityOf(category, f) == IF category = "audioOnly" THEN AbrOrZero(f) ELSE HeightOf(f)

\* no entry of the category that is left out is better than one that is offered
KeepsBest(category) ==
    \A f, g \in {x \in Entries(given) : InCategory(category, x)} :
        f.format_id \notin Range(Offered) /\ g.format_id \in Range(Offered) =>
            QualityOf(category, f) <= QualityOf(category, g)

\* C15: with --auto the selection is "auto" and no prompt is shown; without it
\* the prompt offers the first 10 combined, then the first 10 video-only, then
\* the first 5 audio-only entries of the sorted categories (or fewer), then one
\* auto entry, always there and last; the value returned is "auto" or an
\* offered identifier; selectBestFormat returns the best entry of the whole
\* catalogue whatever was offered.
C15_SelectFormat ==
    /\ autoFlag => choices = <<>> /\ (answer # <<>> => answer = <<"auto">>)
    /\ choices # <<>> =>
         /\ ~autoFlag
         /\ Offered = FirstIds("videoAudio", 10) \o FirstIds("videoOnly", 10)
                      \o FirstIds("audioOnly", 5) \o <<"auto">>
         /\ KeepsBest("videoAudio") /\ KeepsBest("videoOnly") /\ KeepsBest("audioOnly")
         /\ ~choices[1][Len(choices[1])].disabled
         /\ choices[1][Len(choices[1])].value = "auto"
         /\ Cardinality({i \in 1..Len(Offered) : Offered[i] = "auto"}) = 1
    /\ ~autoFlag /\ answer # <<>> =>
         choices # <<>> /\ answer[1] \in Range(Offered)
    /\ best # <<>> =>
         LET va == {f \in Entries(given) : InCategory("videoAudio", f)}
             vo == {f \in Entries(given) : InCategory("videoOnly", f)}
             pool == IF va # {} THEN va ELSE vo
         IN IF pool = {} THEN best[2] = <<>>
            ELSE /\ best[2] # <<>>
                 /\ best[2][1] \in pool
                 /\ \A f \in pool : HeightOf(f) <= HeightOf(best[2][1])
                 /\ choices # <<>> => best[2][1].format_id = Offered[1]

\* an identifier was chosen at the prompt of a catalogue that holds more
\* entries of every category than are offered, and selectBestFormat was called
C15_Witness ==
    /\ ~autoFlag
    /\ answer # <<>>
    /\ answer[1] # "auto"
    /\ best # <<>>
    /\ Len(organizeFormats(given).videoAudio) > 10
    /\ Len(organizeFormats(given).videoOnly) > 10
    /\ Len(organizeFormats(given).audioOnly) > 5
    /\ Len(Offered) = 26

====
